---- MODULE Spec2Model ----
\* A model of InvoiceApp.py (a Streamlit GST invoice page backed by a Supabase
\* record store): the invoice number sequencer, the customer upsert, the page's
\* script runs over the session state, and the invoice arithmetic.
EXTENDS Integers, Sequences, FiniteSets, Bags, TLC

\* ------------------------------------------------------------------ bounds
NumCallers == 2      \* sessions running the script concurrently
MaxCalls == 4        \* script runs of the concurrent sessions in one behaviour
MaxRuns == 3         \* script runs the user of the page starts in one behaviour
MaxFaults == 3       \* store operations that raise in one behaviour
MaxClock == 1        \* clock readings 0..MaxClock (seconds of one minute)
MaxItems == 2        \* line items in a draft
MaxQty == 1          \* quantities 1..MaxQty
MaxStateLen == 3     \* characters in a state name
MaxTotalsQty == 3    \* quantities 1..MaxTotalsQty of the items totals are taken of
MaxHsnInvoices == 2  \* invoices of the month the HSN analytics aggregate

VARIABLES
    invoice_counter,    \* table invoice_counter: sequence of rows [id, counter]
    counter_id_unique,  \* schema: does the table reject a second row with id 1
    customers,          \* table customers: sequence of customer rows
    customer_name_unique, \* schema: does the table reject a second row of a name
    invoices,           \* table invoices: sequence of invoice records
    clock,              \* datetime.now(), in whole seconds
    faults,             \* store operations that have raised so far
    runs_left,          \* script runs the users may still start
    pc,                 \* per session: where its script run stands
    button,             \* per session: the button whose click started the run
    form,               \* per session: the customer inputs of the run
    company_state,      \* sidebar input "State"
    cur,                \* per session: result.data of the counter select
    invoice_number,     \* per session: what get_next_invoice_number returned
    fell_back,          \* per session: did that call take the except path
    returned,           \* bag of the values get_next_invoice_number returned
    cust_req,           \* per session: customer_data handed to save_customer
    cust_found,         \* per session: did its select find rows of that name
    items,              \* per session: st.session_state.items
    invoice_generated,  \* per session: st.session_state.invoice_generated
    pdf_buffer,         \* per session: st.session_state.pdf_buffer, <<>> if unset
    current_invoice_number, \* per session: likewise, <<>> if unset
    current_invoice_date,   \* per session: likewise, <<>> if unset
    totals,             \* the totals the page displays
    tax_rows,           \* the tax rows generate_pdf lays out
    assembled,          \* invoice_data dicts assembled so far
    skipped,            \* per session: numbers of invoices whose save failed
    rejected,           \* per session: has an item handler shown its st.error
    amount,             \* the argument of a number_to_words call
    words,              \* what the call came to: <<>> before it ends
    hsn_query,          \* HSN Analytics tab: [year, month] selected
    hsn_result          \* what the tab came to show: <<>> before it has run

storeVars == <<invoice_counter, counter_id_unique, customers,
               customer_name_unique, invoices>>
envVars == <<clock, faults, runs_left>>
seqVars == <<cur, invoice_number, fell_back, returned>>
custVars == <<cust_req, cust_found>>
sessVars == <<items, invoice_generated, pdf_buffer, current_invoice_number,
              current_invoice_date>>
wordVars == <<amount, words>>
hsnVars == <<hsn_query, hsn_result>>
viewVars == <<company_state, totals, tax_rows, wordVars, hsnVars>>
histVars == <<assembled, skipped, rejected>>

vars == <<storeVars, envVars, pc, button, form, seqVars, custVars, sessVars,
          viewVars, histVars>>

\* ------------------------------------------------------------ text values
\* Decimal digits of n, most significant first (str(n)).
RECURSIVE DigitsOf(_)
DigitsOf(n) == IF n < 10 THEN <<n>> ELSE Append(DigitsOf(n \div 10), n % 10)

\* Format spec 0<w>d: left-pad with zeros to width w, never truncate.
RECURSIVE ZeroPad(_, _)
ZeroPad(ds, w) == IF Len(ds) >= w THEN ds ELSE ZeroPad(<<0>> \o ds, w)

\* f"INV-{next_num:05d}"
FormatInvoiceNumber(next_num) ==
    [prefix |-> "INV-", digits |-> ZeroPad(DigitsOf(next_num), 5)]

\* The literal "INV-00001".
FirstInvoiceNumber == [prefix |-> "INV-", digits |-> <<0, 0, 0, 0, 1>>]

\* datetime.now().strftime('%Y%m%d%H%M%S') at clock reading t: the readings of
\* the model lie within one minute, so the first twelve digits are fixed.
Strftime(t) == <<2, 0, 2, 4, 0, 1, 0, 1, 0, 9, 3, 0>> \o ZeroPad(DigitsOf(t), 2)

\* invoice_date.strftime('%Y-%m-%d') of the day the readings lie in, as
\* <<year, month, day>>.
Strftime_Ymd == <<2024, 1, 1>>

\* f"INV-{datetime.now().strftime('%Y%m%d%H%M%S')}"
FallbackInvoiceNumber(t) == [prefix |-> "INV-", digits |-> Strftime(t)]

\* The value of a name the script has not assigned yet.
NoNumber == [prefix |-> "", digits |-> <<>>]

\* ------------------------------------------------------ float arithmetic
\* Python floats are binary floating point with round-half-to-even; the model
\* keeps FloatBits bits of significand (53 in CPython). A float is [m, e] with
\* value m * 2^e, m = 0 or 2^(FloatBits-1) <= m < 2^FloatBits.
FloatBits == 8

\* The float nearest to (n / d) * 2^e, ties to the even significand.
RECURSIVE RoundQ(_, _, _)
RoundQ(n, d, e) ==
    IF n = 0 THEN [m |-> 0, e |-> 0]
    ELSE IF n >= d * 2^FloatBits THEN RoundQ(n, 2 * d, e + 1)
    ELSE IF n < d * 2^(FloatBits - 1) THEN RoundQ(2 * n, d, e - 1)
    ELSE LET q == n \div d
             r == n % d
             m == IF 2 * r > d \/ (2 * r = d /\ q % 2 = 1) THEN q + 1 ELSE q
         IN IF m = 2^FloatBits
            THEN [m |-> 2^(FloatBits - 1), e |-> e + 1]
            ELSE [m |-> m, e |-> e]

\* float(n) for an int n.
FromInt(n) == RoundQ(n, 1, 0)

\* The float a decimal input of c hundredths (st.number_input, step 0.01) is.
FromCents(c) == RoundQ(c, 100, 0)

\* a + b
FAdd(a, b) ==
    IF a.m = 0 THEN b
    ELSE IF b.m = 0 THEN a
    ELSE IF a.e >= b.e THEN RoundQ(a.m * 2^(a.e - b.e) + b.m, 1, b.e)
    ELSE RoundQ(b.m * 2^(b.e - a.e) + a.m, 1, a.e)

\* a * b
FMul(a, b) == RoundQ(a.m * b.m, 1, a.e + b.e)

\* a / b, b not zero
FDiv(a, b) == RoundQ(a.m, b.m, a.e - b.e)

\* sum(...) over a sequence of floats: 0 + x1 + x2 + ... from the left.
RECURSIVE FSum(_)
FSum(xs) ==
    IF Len(xs) = 0 THEN FromInt(0)
    ELSE FAdd(FSum(SubSeq(xs, 1, Len(xs) - 1)), xs[Len(xs)])

\* f"{x:.2f}": the hundredths nearest to x (ties to even), as a whole number
\* of hundredths.
Format2f(x) ==
    IF x.e >= 0 THEN x.m * 2^(x.e) * 100
    ELSE LET d == 2^(0 - x.e)
             q == (x.m * 100) \div d
             r == (x.m * 100) % d
         IN IF 2 * r > d \/ (2 * r = d /\ q % 2 = 1) THEN q + 1 ELSE q

\* ------------------------------------------------------------ line items
\* st.selectbox("GST %", [0, 5, 12, 18, 28])
GstOptions == {0, 5, 12, 18, 28}

\* The item dict the Add Item and Add Another Item handlers build.
MakeItem(product_name, hsn_code, quantity, rate, gst_rate) ==
    LET taxable_value == FMul(FromInt(quantity), rate)
        tax_amount == FDiv(FMul(taxable_value, FromInt(gst_rate)), FromInt(100))
        total == FAdd(taxable_value, tax_amount)
    IN [product_name |-> product_name, hsn_code |-> hsn_code,
        quantity |-> quantity, rate |-> rate, taxable_value |-> taxable_value,
        gst_rate |-> gst_rate, tax_amount |-> tax_amount, total |-> total]

\* ---------------------------------------------------------- state strings
\* Strings are sequences of characters.
Whitespace == {" "}

\* str.strip(): leading and trailing whitespace removed.
RECURSIVE LStrip(_)
LStrip(str) ==
    IF Len(str) > 0 /\ str[1] \in Whitespace THEN LStrip(Tail(str)) ELSE str

RECURSIVE RStrip(_)
RStrip(str) ==
    IF Len(str) > 0 /\ str[Len(str)] \in Whitespace
    THEN RStrip(SubSeq(str, 1, Len(str) - 1)) ELSE str

\* A strip() that removes nothing.
StripNothing(str) == str

Strip(str) == RStrip(LStrip(str))

\* str.lower() on the characters of the model.
LowerChar(c) == IF c = "M" THEN "m" ELSE IF c = "H" THEN "h" ELSE c

Lower(str) == [i \in DOMAIN str |-> LowerChar(str[i])]

\* A comparison that forgets to strip the customer's state.
IsIntrastateUnstripped(company, customer) ==
    Lower(Strip(company)) = Lower(customer)

\* is_intrastate = company_state.strip().lower() == customer_state.strip().lower()
\* (customer_state is always a name of the script, so the else '' never runs).
IsIntrastate(company, customer) == Lower(Strip(company)) = Lower(Strip(customer))

\* ---------------------------------------------------------- invoice totals
\* subtotal, total_tax, grand_total and is_intrastate as the page computes them.
InvoiceTotals(items_list, company, customer) ==
    [computed |-> TRUE,
     subtotal |-> FSum([i \in DOMAIN items_list |-> items_list[i].taxable_value]),
     total_tax |-> FSum([i \in DOMAIN items_list |-> items_list[i].tax_amount]),
     grand_total |-> FSum([i \in DOMAIN items_list |-> items_list[i].total]),
     is_intrastate |-> IsIntrastate(company, customer)]

NoTotals ==
    [computed |-> FALSE, subtotal |-> FromInt(0), total_tax |-> FromInt(0),
     grand_total |-> FromInt(0), is_intrastate |-> FALSE]

\* generate_pdf: the tax rows of the items table, label and formatted amount.
TaxRows(invoice_data) ==
    IF invoice_data.is_intrastate
    THEN LET cgst == FDiv(invoice_data.total_tax, FromInt(2))
             sgst == FDiv(invoice_data.total_tax, FromInt(2))
         IN <<[label |-> "CGST:", amount |-> Format2f(cgst)],
              [label |-> "SGST:", amount |-> Format2f(sgst)]>>
    ELSE <<[label |-> "IGST:", amount |-> Format2f(invoice_data.total_tax)]>>

\* --------------------------------------------------------- number_to_words
\* A text is the sequence of its words and of the blanks between them.
\* A call ends with a text or with an IndexError.
Ok(text) == [raised |-> FALSE, text |-> text]

IndexError == [raised |-> TRUE, text |-> <<>>]

\* a + b on texts, when evaluating a or b may raise.
Cat(a, b) == IF a.raised \/ b.raised THEN IndexError ELSE Ok(a.text \o b.text)

ones ==
    <<<<>>, <<"One">>, <<"Two">>, <<"Three">>, <<"Four">>, <<"Five">>, <<"Six">>,
      <<"Seven">>, <<"Eight">>, <<"Nine">>>>

tens ==
    <<<<>>, <<>>, <<"Twenty">>, <<"Thirty">>, <<"Forty">>, <<"Fifty">>,
      <<"Sixty">>, <<"Seventy">>, <<"Eighty">>, <<"Ninety">>>>

teens ==
    <<<<"Ten">>, <<"Eleven">>, <<"Twelve">>, <<"Thirteen">>, <<"Fourteen">>,
      <<"Fifteen">>, <<"Sixteen">>, <<"Seventeen">>, <<"Eighteen">>,
      <<"Nineteen">>>>

\* list[i] for i >= 0: lists are indexed from 0, and an index past the end
\* raises IndexError.
ListItem(list, i) == IF i < Len(list) THEN Ok(list[i + 1]) ELSE IndexError

RECURSIVE convert_below_thousand(_)
convert_below_thousand(n) ==
    IF n = 0 THEN Ok(<<>>)
    ELSE IF n < 10 THEN ListItem(ones, n)
    ELSE IF n < 20 THEN ListItem(teens, n - 10)
    ELSE IF n < 100
    THEN Cat(ListItem(tens, n \div 10),
             IF n % 10 # 0 THEN Cat(Ok(<<" ">>), ListItem(ones, n % 10))
             ELSE Ok(<<>>))
    ELSE Cat(Cat(ListItem(ones, n \div 100), Ok(<<" ", "Hundred">>)),
             IF n % 100 # 0
             THEN Cat(Ok(<<" ">>), convert_below_thousand(n % 100))
             ELSE Ok(<<>>))

\* round(x) of a float x >= 0: the nearest int, ties to the even one.
PyRound(x) ==
    IF x.e >= 0 THEN x.m * 2^(x.e)
    ELSE LET d == 2^(0 - x.e)
             q == x.m \div d
             r == x.m % d
         IN IF 2 * r > d \/ (2 * r = d /\ q % 2 = 1) THEN q + 1 ELSE q

\* An amount num >= 0 is written [hi, lo, frac]: int(num) = hi * 10000000 + lo
\* with lo < 10000000 (Python ints are unbounded), and frac = num - int(num),
\* a float below 1 (the difference is exact).
\* paise = round((num - rupees) * 100)
Paise(num) == PyRound(FMul(num.frac, FromInt(100)))

number_to_words(num) ==
    IF num.hi = 0 /\ num.lo = 0 /\ num.frac.m = 0
    THEN Ok(<<"Zero", " ", "Rupees", " ", "Only">>)
    ELSE
    LET paise == Paise(num)
        \* Crores: rupees >= 10000000, rupees // 10000000, rupees %= 10000000
        result1 == IF num.hi >= 1
                   THEN Cat(convert_below_thousand(num.hi), Ok(<<" ", "Crore", " ">>))
                   ELSE Ok(<<>>)
        rupees1 == num.lo
        \* Lakhs
        result2 == IF rupees1 >= 100000
                   THEN Cat(result1, Cat(convert_below_thousand(rupees1 \div 100000),
                                         Ok(<<" ", "Lakh", " ">>)))
                   ELSE result1
        rupees2 == IF rupees1 >= 100000 THEN rupees1 % 100000 ELSE rupees1
        \* Thousands
        result3 == IF rupees2 >= 1000
                   THEN Cat(result2, Cat(convert_below_thousand(rupees2 \div 1000),
                                         Ok(<<" ", "Thousand", " ">>)))
                   ELSE result2
        rupees3 == IF rupees2 >= 1000 THEN rupees2 % 1000 ELSE rupees2
        \* Remaining
        result4 == IF rupees3 > 0
                   THEN Cat(result3, convert_below_thousand(rupees3))
                   ELSE result3
        result5 == IF result4.raised THEN IndexError
                   ELSE Ok(Strip(result4.text) \o <<" ", "Rupees">>)
        result6 == IF paise > 0
                   THEN Cat(result5, Cat(Ok(<<" ", "and", " ">>),
                                         Cat(convert_below_thousand(paise),
                                             Ok(<<" ", "Paise">>))))
                   ELSE result5
    IN Cat(result6, Ok(<<" ", "Only">>))

\* ----------------------------------------------------------- HSN analytics
\* item.get(key, default) on a stored item, a dict that may lack the key.
DictGet(item, key, default) == IF key \in DOMAIN item THEN item[key] ELSE default

\* Texts 'YYYY-MM-DD' compare as their <<year, month, day>> do.
DateLess(a, b) ==
    \/ a[1] < b[1]
    \/ a[1] = b[1] /\ a[2] < b[2]
    \/ a[1] = b[1] /\ a[2] = b[2] /\ a[3] < b[3]

\* start_date and end_date of the selected month.
StartDate(q) == <<q.year, q.month, 1>>

EndDate(q) ==
    IF q.month = 12 THEN <<q.year + 1, 1, 1>> ELSE <<q.year, q.month + 1, 1>>

\* select('*').gte('invoice_date', start_date).lt('invoice_date', end_date)
SelectMonth(rows, q) ==
    SelectSeq(rows, LAMBDA inv : /\ ~DateLess(inv.invoice_date, StartDate(q))
                                 /\ DateLess(inv.invoice_date, EndDate(q)))

\* The entry hsn_data gets for a code it has not seen.
NewHsnEntry(hsn_code) ==
    [hsn_code |-> hsn_code, product_names |-> {}, total_quantity |-> 0,
     total_taxable_value |-> FromInt(0), total_tax |-> FromInt(0),
     total_value |-> FromInt(0), invoice_count |-> 0, avg_gst_rate |-> <<>>]

\* Where the entry of a code stands in hsn_data (a dict, in insertion order).
HsnIndex(hsn_data, hsn_code) ==
    CHOOSE i \in DOMAIN hsn_data : hsn_data[i].hsn_code = hsn_code

\* An aggregation that starts a new entry for every item.
HsnAddItemAlwaysNew(hsn_data, item) ==
    LET quantity == DictGet(item, "quantity", 0)
    IN Append(hsn_data,
              [NewHsnEntry(DictGet(item, "hsn_code", "Unknown"))
                  EXCEPT !.total_quantity = quantity])

\* The body of the loop over the items of an invoice.
HsnAddItem(hsn_data, item) ==
    LET hsn_code == DictGet(item, "hsn_code", "Unknown")
        product_name == DictGet(item, "product_name", "Unknown")
        quantity == DictGet(item, "quantity", 0)
        taxable_value == DictGet(item, "taxable_value", FromInt(0))
        gst_rate == DictGet(item, "gst_rate", 0)
        tax_amount == DictGet(item, "tax_amount", FromInt(0))
        total == DictGet(item, "total", FromInt(0))
        known == \E i \in DOMAIN hsn_data : hsn_data[i].hsn_code = hsn_code
        with_entry == IF known THEN hsn_data
                      ELSE Append(hsn_data, NewHsnEntry(hsn_code))
        i == HsnIndex(with_entry, hsn_code)
        e == with_entry[i]
    IN [with_entry EXCEPT ![i] =
           [e EXCEPT !.product_names = e.product_names \cup {product_name},
                     !.total_quantity = e.total_quantity + quantity,
                     !.total_taxable_value = FAdd(e.total_taxable_value, taxable_value),
                     !.total_tax = FAdd(e.total_tax, tax_amount),
                     !.total_value = FAdd(e.total_value, total),
                     !.avg_gst_rate = Append(e.avg_gst_rate, gst_rate)]]

\* for item in items
RECURSIVE HsnAddItems(_, _)
HsnAddItems(hsn_data, item_list) ==
    IF item_list = <<>> THEN hsn_data
    ELSE HsnAddItems(HsnAddItem(hsn_data, Head(item_list)), Tail(item_list))

\* for invoice in result.data
RECURSIVE HsnAddInvoices(_, _)
HsnAddInvoices(hsn_data, data) ==
    IF data = <<>> THEN hsn_data
    ELSE HsnAddInvoices(HsnAddItems(hsn_data, DictGet(Head(data), "items", <<>>)),
                        Tail(data))

\* sum(...) of a list of ints.
RECURSIVE IntSum(_)
IntSum(xs) == IF xs = <<>> THEN 0 ELSE Head(xs) + IntSum(Tail(xs))

\* The row of hsn_list made of an entry (Products, at most three names of it
\* in the order the set yields them, is kept as the set).
HsnRow(entry) ==
    [hsn_code |-> entry.hsn_code,
     products |-> entry.product_names,
     total_qty |-> entry.total_quantity,
     taxable_value |-> entry.total_taxable_value,
     total_tax |-> entry.total_tax,
     total_value |-> entry.total_value,
     avg_gst |-> IF entry.avg_gst_rate # <<>>
                 THEN FDiv(FromInt(IntSum(entry.avg_gst_rate)),
                           FromInt(Len(entry.avg_gst_rate)))
                 ELSE FromInt(0)]

\* a <= b on floats that are not negative.
FLeq(a, b) ==
    \/ a.m = 0
    \/ b.m # 0 /\ (a.e < b.e \/ (a.e = b.e /\ a.m <= b.m))

\* sort_values('Total Value', ascending=False): the orders the sort may leave
\* the rows in (rows of equal value in either order).
SortedByValue(hsn_list) ==
    {[i \in DOMAIN hsn_list |-> hsn_list[perm[i]]] : perm \in
        {p \in Permutations(DOMAIN hsn_list) :
            \A i, j \in DOMAIN hsn_list :
                i < j => FLeq(hsn_list[p[j]].total_value, hsn_list[p[i]].total_value)}}

\* total_value += invoice.get('grand_total', 0)
InvoiceValue(data) ==
    FSum([i \in DOMAIN data |-> DictGet(data[i], "grand_total", FromInt(0))])

\* ---------------------------------------------------------------- inputs
\* What the user may type into the customer inputs of the page.
Names == {"", "Acme"}
Addresses == {"", "12 Main Street"}
ShippingAddresses == {"", "Dock 4"}
PageStates == {<<>>, <<"M", "h">>}

FormInputs ==
    [selected : {FALSE}, customer_name : Names, billing_address : Addresses,
     shipping_address : ShippingAddresses, customer_state : PageStates]

\* The inputs when the selectbox holds an existing customer: the fields of the
\* first row of that name, shown disabled.
FormOfRow(c) ==
    [selected |-> TRUE, customer_name |-> c.name,
     billing_address |-> c.billing_address,
     shipping_address |-> c.shipping_address, customer_state |-> c.state]

SelectableForms ==
    {FormOfRow(customers[i]) : i \in
        {i \in DOMAIN customers :
            \A j \in 1..(i - 1) : customers[j].name # customers[i].name}}

EmptyForm ==
    [selected |-> FALSE, customer_name |-> "", billing_address |-> "",
     shipping_address |-> "", customer_state |-> <<>>]

\* customer_data as the Save Customer handler builds it from the inputs (the
\* gstin text and the created_at stamp, which nothing reads, are left out).
CustomerData(f) ==
    [name |-> f.customer_name, billing_address |-> f.billing_address,
     shipping_address |-> f.shipping_address, state |-> f.customer_state]

NoCustomerData == CustomerData(EmptyForm)

\* What the user may type into the product inputs.
ProductNames == {"", "Pen"}
HsnCodes == {"", "8471"}
RateCents == {0, 10}

\* ---------------------------------------------------------------- sessions
Sessions == DOMAIN pc

\* Every script run executes the file in a fresh namespace: the names the run
\* assigned (the customer inputs, customer_data, result, invoice_number) are
\* gone when it ends.
FreshNamespace(s) ==
    /\ form' = [form EXCEPT ![s] = EmptyForm]
    /\ cur' = [cur EXCEPT ![s] = <<>>]
    /\ invoice_number' = [invoice_number EXCEPT ![s] = NoNumber]
    /\ fell_back' = [fell_back EXCEPT ![s] = FALSE]
    /\ cust_req' = [cust_req EXCEPT ![s] = NoCustomerData]
    /\ cust_found' = [cust_found EXCEPT ![s] = FALSE]

\* st.rerun(): the run stops and the script starts again with no button set.
Rerun(s) ==
    /\ pc' = [pc EXCEPT ![s] = "seq_select"]
    /\ button' = [button EXCEPT ![s] = "none"]
    /\ FreshNamespace(s)

\* The run reaches the end of the script.
EndRun(s) ==
    /\ pc' = [pc EXCEPT ![s] = "idle"]
    /\ button' = [button EXCEPT ![s] = "none"]
    /\ FreshNamespace(s)

\* The user's click starts a script run, which runs down to the
\* get_next_invoice_number() call of the Invoice Details column.
StartRun(s, b) ==
    /\ pc[s] = "idle"
    /\ runs_left > 0
    /\ runs_left' = runs_left - 1
    /\ button' = [button EXCEPT ![s] = b]
    /\ UNCHANGED <<clock, faults>>

\* A page load: a script run with no button set.
PageLoad(s) ==
    /\ StartRun(s, "none")
    /\ pc' = [pc EXCEPT ![s] = "seq_select"]
    /\ UNCHANGED <<storeVars, form, seqVars, custVars, sessVars, viewVars, histVars>>

\* ------------------------------------------------ get_next_invoice_number
\* What the call hands back to the script, and the log entry for it.
SeqReturn(s, number, fallback) ==
    /\ invoice_number' = [invoice_number EXCEPT ![s] = number]
    /\ fell_back' = [fell_back EXCEPT ![s] = fallback]
    /\ returned' = returned (+) SetToBag({[number |-> number,
                                                fallback |-> fallback]})
    /\ pc' = [pc EXCEPT ![s] = "body"]

\* except Exception: st.error(...); return the time-derived identifier.
SeqExcept(s) == SeqReturn(s, FallbackInvoiceNumber(clock), TRUE)

\* result = supabase.table('invoice_counter').select('*').execute()
SeqSelect(s) ==
    /\ pc[s] = "seq_select"
    /\ cur' = [cur EXCEPT ![s] = invoice_counter]
    /\ pc' = [pc EXCEPT ![s] = "seq_write"]
    /\ UNCHANGED <<storeVars, envVars, button, form, invoice_number, fell_back,
                   returned, custVars, sessVars, viewVars, histVars>>

\* update({'counter': next_num}).eq('id', 1): every row with id 1 is written.
UpdateCounter(rows, next_num) ==
    [i \in DOMAIN rows |->
        IF rows[i].id = 1 THEN [rows[i] EXCEPT !.counter = next_num] ELSE rows[i]]

\* if result.data and len(result.data) > 0: current + 1 is written and returned.
SeqUpdate(s) ==
    /\ pc[s] = "seq_write"
    /\ Len(cur[s]) > 0
    /\ LET current == cur[s][1].counter
           next_num == current + 1
       IN /\ invoice_counter' = UpdateCounter(invoice_counter, next_num)
          /\ SeqReturn(s, FormatInvoiceNumber(next_num), FALSE)
    /\ UNCHANGED <<counter_id_unique, customers, customer_name_unique, invoices,
                   envVars, button, form, cur, custVars, sessVars, viewVars,
                   histVars>>

\* else: insert({'id': 1, 'counter': 1}) and return "INV-00001". A table whose
\* id is unique rejects the insert when a row with id 1 is there by now, and
\* the error is caught by the except clause.
SeqInsert(s) ==
    /\ pc[s] = "seq_write"
    /\ Len(cur[s]) = 0
    /\ IF counter_id_unique /\ \E i \in DOMAIN invoice_counter : invoice_counter[i].id = 1
       THEN /\ SeqExcept(s)
            /\ UNCHANGED invoice_counter
       ELSE /\ invoice_counter' = Append(invoice_counter, [id |-> 1, counter |-> 1])
            /\ SeqReturn(s, FirstInvoiceNumber, FALSE)
    /\ UNCHANGED <<counter_id_unique, customers, customer_name_unique, invoices,
                   envVars, button, form, cur, custVars, sessVars, viewVars,
                   histVars>>

\* The store raises on the select or on the write (unreachable, timeout): the
\* table is left as it was and the except clause returns the fallback.
SeqStoreError(s) ==
    /\ pc[s] \in {"seq_select", "seq_write"}
    /\ faults < MaxFaults
    /\ faults' = faults + 1
    /\ SeqExcept(s)
    /\ UNCHANGED <<storeVars, clock, runs_left, button, form, cur, custVars, sessVars,
                   viewVars, histVars>>

\* ------------------------------------------------------------ save_customer
HasCustomer(rows, name) == \E i \in DOMAIN rows : rows[i].name = name

\* Click on Save Customer, shown while the selectbox holds "-- New Customer --":
\* with a name and a billing address save_customer is called, otherwise the
\* script runs on.
ClickSaveCustomer(s) ==
    /\ StartRun(s, "save_customer")
    /\ \E f \in FormInputs :
        /\ form' = [form EXCEPT ![s] = f]
        /\ IF f.customer_name # "" /\ f.billing_address # ""
           THEN /\ cust_req' = [cust_req EXCEPT ![s] = CustomerData(f)]
                /\ pc' = [pc EXCEPT ![s] = "cust_select"]
           ELSE /\ pc' = [pc EXCEPT ![s] = "seq_select"]
                /\ UNCHANGED cust_req
    /\ UNCHANGED <<storeVars, seqVars, cust_found, sessVars, viewVars, histVars>>

\* select('*').eq('name', customer_data['name'])
CustSelect(s) ==
    /\ pc[s] = "cust_select"
    /\ cust_found' = [cust_found EXCEPT ![s] = HasCustomer(customers, cust_req[s].name)]
    /\ pc' = [pc EXCEPT ![s] = "cust_write"]
    /\ UNCHANGED <<storeVars, envVars, button, form, seqVars, cust_req, sessVars,
                   viewVars, histVars>>

\* update(customer_data).eq('name', ...): every row of the name is rewritten.
UpdateCustomer(rows, customer_data) ==
    [i \in DOMAIN rows |->
        IF rows[i].name = customer_data.name THEN customer_data ELSE rows[i]]

\* The select found rows: update, return True, and the handler reruns.
CustUpdate(s) ==
    /\ pc[s] = "cust_write"
    /\ cust_found[s]
    /\ customers' = UpdateCustomer(customers, cust_req[s])
    /\ Rerun(s)
    /\ UNCHANGED <<invoice_counter, counter_id_unique, customer_name_unique,
                   invoices, envVars, returned, sessVars, viewVars, histVars>>

\* The select found none: insert. A table whose name is unique rejects the row
\* when one of that name is there by now; save_customer returns False and the
\* script runs on. Otherwise it returns True and the handler reruns.
CustInsert(s) ==
    /\ pc[s] = "cust_write"
    /\ ~cust_found[s]
    /\ IF customer_name_unique /\ HasCustomer(customers, cust_req[s].name)
       THEN /\ pc' = [pc EXCEPT ![s] = "seq_select"]
            /\ UNCHANGED <<customers, button, form, cur, invoice_number,
                           fell_back, custVars>>
       ELSE /\ customers' = Append(customers, cust_req[s])
            /\ Rerun(s)
    /\ UNCHANGED <<invoice_counter, counter_id_unique, customer_name_unique,
                   invoices, envVars, returned, sessVars, viewVars, histVars>>

\* The store raises on the select or on the write: save_customer returns False.
CustStoreError(s) ==
    /\ pc[s] \in {"cust_select", "cust_write"}
    /\ faults < MaxFaults
    /\ faults' = faults + 1
    /\ pc' = [pc EXCEPT ![s] = "seq_select"]
    /\ UNCHANGED <<storeVars, clock, runs_left, button, form, seqVars, custVars,
                   sessVars, viewVars, histVars>>

\* ------------------------------------------------------- the item handlers
\* The product inputs the user may have typed when a handler reads them.
ItemInputs ==
    [product_name : ProductNames, hsn_code : HsnCodes, quantity : 1..MaxQty,
     rate : {FromCents(c) : c \in RateCents}, gst_rate : GstOptions]

ItemOf(in) ==
    MakeItem(in.product_name, in.hsn_code, in.quantity, in.rate, in.gst_rate)

\* Click on Add Item.
ClickAddItem(s) ==
    /\ StartRun(s, "add_item")
    /\ Len(items[s]) < MaxItems
    /\ pc' = [pc EXCEPT ![s] = "seq_select"]
    /\ UNCHANGED <<storeVars, form, seqVars, custVars, sessVars, viewVars, histVars>>

\* An Add Item handler that appends whatever the inputs hold.
AddItemUnchecked(s) ==
    /\ pc[s] = "body"
    /\ button[s] = "add_item"
    /\ \E in \in ItemInputs :
        /\ items' = [items EXCEPT ![s] = Append(items[s], ItemOf(in))]
        /\ Rerun(s)
    /\ UNCHANGED <<storeVars, envVars, returned, invoice_generated, pdf_buffer,
                   current_invoice_number, current_invoice_date, viewVars,
                   histVars>>

\* if st.button("Add Item"): with a product name and an HSN code the item is
\* appended and the script reruns; otherwise st.error and the script runs on.
AddItem(s) ==
    /\ pc[s] = "body"
    /\ button[s] = "add_item"
    /\ \E in \in ItemInputs :
        IF in.product_name # "" /\ in.hsn_code # ""
        THEN /\ items' = [items EXCEPT ![s] = Append(items[s], ItemOf(in))]
             /\ Rerun(s)
             /\ UNCHANGED rejected
        ELSE /\ rejected' = [rejected EXCEPT ![s] = TRUE]
             /\ EndRun(s)
             /\ UNCHANGED items
    /\ UNCHANGED <<storeVars, envVars, returned, invoice_generated, pdf_buffer,
                   current_invoice_number, current_invoice_date, viewVars,
                   assembled, skipped>>

\* Click on Clear All Items, shown while the draft has items.
ClickClearItems(s) ==
    /\ StartRun(s, "clear_items")
    /\ Len(items[s]) > 0
    /\ pc' = [pc EXCEPT ![s] = "seq_select"]
    /\ UNCHANGED <<storeVars, form, seqVars, custVars, sessVars, viewVars, histVars>>

\* st.session_state.items = []; st.rerun()
ClearItems(s) ==
    /\ pc[s] = "body"
    /\ button[s] = "clear_items"
    /\ items' = [items EXCEPT ![s] = <<>>]
    /\ Rerun(s)
    /\ UNCHANGED <<storeVars, envVars, returned, invoice_generated, pdf_buffer,
                   current_invoice_number, current_invoice_date, viewVars,
                   histVars>>

\* Click on Add Another Item, shown while the draft has items.
ClickAddAnother(s) ==
    /\ StartRun(s, "add_another")
    /\ Len(items[s]) > 0
    /\ Len(items[s]) < MaxItems
    /\ pc' = [pc EXCEPT ![s] = "seq_select"]
    /\ UNCHANGED <<storeVars, form, seqVars, custVars, sessVars, viewVars, histVars>>

\* if st.button("Add Another Item"): as Add Item, on the extra_* inputs.
AddAnother(s) ==
    /\ pc[s] = "body"
    /\ button[s] = "add_another"
    /\ \E in \in ItemInputs :
        IF in.product_name # "" /\ in.hsn_code # ""
        THEN /\ items' = [items EXCEPT ![s] = Append(items[s], ItemOf(in))]
             /\ Rerun(s)
             /\ UNCHANGED rejected
        ELSE /\ rejected' = [rejected EXCEPT ![s] = TRUE]
             /\ EndRun(s)
             /\ UNCHANGED items
    /\ UNCHANGED <<storeVars, envVars, returned, invoice_generated, pdf_buffer,
                   current_invoice_number, current_invoice_date, viewVars,
                   assembled, skipped>>

\* --------------------------------------------------------- Generate Invoice
\* An invoice_data that is assembled without the items of the draft.
InvoiceDataWithoutItems(s) ==
    LET t == InvoiceTotals(items[s], company_state, form[s].customer_state)
    IN [invoice_number |-> invoice_number[s],
        invoice_date |-> Strftime_Ymd,
        customer_name |-> form[s].customer_name,
        customer_state |-> form[s].customer_state,
        billing_address |-> form[s].billing_address,
        shipping_address |-> form[s].shipping_address,
        items |-> <<>>,
        subtotal |-> t.subtotal,
        total_tax |-> t.total_tax,
        grand_total |-> t.grand_total,
        is_intrastate |-> t.is_intrastate]

\* invoice_data as the handler assembles it (the dates, place_of_supply and
\* amount_in_words are left out).
InvoiceData(s) ==
    LET t == InvoiceTotals(items[s], company_state, form[s].customer_state)
    IN [invoice_number |-> invoice_number[s],
        invoice_date |-> Strftime_Ymd,
        customer_name |-> form[s].customer_name,
        customer_state |-> form[s].customer_state,
        billing_address |-> form[s].billing_address,
        shipping_address |-> form[s].shipping_address,
        items |-> items[s],
        subtotal |-> t.subtotal,
        total_tax |-> t.total_tax,
        grand_total |-> t.grand_total,
        is_intrastate |-> t.is_intrastate]

\* generate_pdf(invoice_data, company_data): what the document shows.
GeneratePdf(invoice_data) ==
    [invoice_number |-> invoice_data.invoice_number,
     shipping_address |-> invoice_data.shipping_address,
     tax_rows |-> TaxRows(invoice_data)]

\* The validation chain of the handler passes.
GenerateInputsValid(s) ==
    /\ form[s].customer_name # ""
    /\ form[s].billing_address # ""
    /\ form[s].customer_state # <<>>
    /\ Len(items[s]) # 0

\* Click on Generate Invoice, shown while the draft has items; the customer
\* inputs are typed, or taken from a customer picked in the selectbox.
ClickGenerate(s) ==
    /\ StartRun(s, "generate")
    /\ Len(items[s]) > 0
    /\ \E f \in FormInputs \cup SelectableForms :
        form' = [form EXCEPT ![s] = f]
    /\ pc' = [pc EXCEPT ![s] = "seq_select"]
    /\ UNCHANGED <<storeVars, seqVars, custVars, sessVars, viewVars, histVars>>

\* One of the st.error branches of the validation chain.
GenerateRejected(s) ==
    /\ pc[s] = "body"
    /\ button[s] = "generate"
    /\ ~GenerateInputsValid(s)
    /\ EndRun(s)
    /\ UNCHANGED <<storeVars, envVars, returned, sessVars, viewVars, histVars>>

\* generate_pdf raises: the except clause reports it, nothing is saved.
GeneratePdfError(s) ==
    /\ pc[s] = "body"
    /\ button[s] = "generate"
    /\ GenerateInputsValid(s)
    /\ faults < MaxFaults
    /\ faults' = faults + 1
    /\ assembled' = assembled + 1
    /\ EndRun(s)
    /\ UNCHANGED <<storeVars, clock, runs_left, returned, sessVars, viewVars,
                   skipped, rejected>>

\* save_invoice: the insert raises, False is returned and st.error shown.
GenerateSaveFailed(s) ==
    /\ pc[s] = "body"
    /\ button[s] = "generate"
    /\ GenerateInputsValid(s)
    /\ faults < MaxFaults
    /\ faults' = faults + 1
    /\ assembled' = assembled + 1
    /\ skipped' = [skipped EXCEPT ![s] = @ \cup {invoice_number[s]}]
    /\ EndRun(s)
    /\ UNCHANGED <<storeVars, clock, runs_left, returned, sessVars, viewVars,
                   rejected>>

\* save_invoice returns True: the session state is set and the script reruns.
GenerateSaved(s) ==
    /\ pc[s] = "body"
    /\ button[s] = "generate"
    /\ GenerateInputsValid(s)
    /\ LET invoice_data == InvoiceData(s)
       IN /\ invoices' = Append(invoices, invoice_data)
          /\ pdf_buffer' = [pdf_buffer EXCEPT ![s] = <<GeneratePdf(invoice_data)>>]
    /\ invoice_generated' = [invoice_generated EXCEPT ![s] = TRUE]
    /\ current_invoice_number' =
           [current_invoice_number EXCEPT ![s] = <<invoice_number[s]>>]
    /\ current_invoice_date' =
           [current_invoice_date EXCEPT ![s] = <<Strftime_Ymd>>]
    /\ assembled' = assembled + 1
    /\ Rerun(s)
    /\ UNCHANGED <<invoice_counter, counter_id_unique, customers,
                   customer_name_unique, envVars, returned, items, viewVars,
                   skipped, rejected>>

\* Click on Create New Invoice, shown once an invoice was generated.
ClickCreateNew(s) ==
    /\ StartRun(s, "create_new")
    /\ invoice_generated[s]
    /\ pdf_buffer[s] # <<>>
    /\ pc' = [pc EXCEPT ![s] = "seq_select"]
    /\ UNCHANGED <<storeVars, form, seqVars, custVars, sessVars, viewVars, histVars>>

\* The draft and the generated invoice are dropped; st.rerun().
CreateNew(s) ==
    /\ pc[s] = "body"
    /\ button[s] = "create_new"
    /\ items' = [items EXCEPT ![s] = <<>>]
    /\ invoice_generated' = [invoice_generated EXCEPT ![s] = FALSE]
    /\ pdf_buffer' = [pdf_buffer EXCEPT ![s] = <<>>]
    /\ current_invoice_number' = [current_invoice_number EXCEPT ![s] = <<>>]
    /\ current_invoice_date' = [current_invoice_date EXCEPT ![s] = <<>>]
    /\ Rerun(s)
    /\ UNCHANGED <<storeVars, envVars, returned, viewVars, histVars>>

\* Click on Refresh (Invoice History tab).
ClickRefresh(s) ==
    /\ StartRun(s, "refresh")
    /\ pc' = [pc EXCEPT ![s] = "seq_select"]
    /\ UNCHANGED <<storeVars, form, seqVars, custVars, sessVars, viewVars, histVars>>

\* if st.button("Refresh"): st.rerun()
Refresh(s) ==
    /\ pc[s] = "body"
    /\ button[s] = "refresh"
    /\ Rerun(s)
    /\ UNCHANGED <<storeVars, envVars, returned, sessVars, viewVars, histVars>>

\* The script run reaches its end with no handler left to run.
FinishRun(s) ==
    /\ pc[s] = "body"
    /\ button[s] \in {"none", "save_customer"}
    /\ EndRun(s)
    /\ UNCHANGED <<storeVars, envVars, returned, sessVars, viewVars, histVars>>

\* A second passes.
Tick ==
    /\ clock < MaxClock
    /\ clock' = clock + 1
    /\ UNCHANGED <<storeVars, faults, runs_left, pc, button, form, seqVars, custVars,
                   sessVars, viewVars, histVars>>

\* ------------------------------------------------------------ initial state
\* n sessions on an empty store, nothing logged yet.
InitStore(n) ==
    /\ invoice_counter = <<>>
    /\ customers = <<>>
    /\ clock = 0
    /\ faults = 0
    /\ button = [s \in 1..n |-> "none"]
    /\ cur = [s \in 1..n |-> <<>>]
    /\ invoice_number = [s \in 1..n |-> NoNumber]
    /\ fell_back = [s \in 1..n |-> FALSE]
    /\ returned = EmptyBag
    /\ cust_req = [s \in 1..n |-> NoCustomerData]
    /\ cust_found = [s \in 1..n |-> FALSE]
    /\ invoice_generated = [s \in 1..n |-> FALSE]
    /\ pdf_buffer = [s \in 1..n |-> <<>>]
    /\ current_invoice_number = [s \in 1..n |-> <<>>]
    /\ current_invoice_date = [s \in 1..n |-> <<>>]
    /\ totals = NoTotals
    /\ tax_rows = <<>>
    /\ assembled = 0
    /\ skipped = [s \in 1..n |-> {}]
    /\ rejected = [s \in 1..n |-> FALSE]

\* number_to_words has not been called.
NoWordsCall ==
    /\ amount = [hi |-> 0, lo |-> 0, frac |-> FromInt(0)]
    /\ words = <<>>

\* The HSN Analytics tab has not run.
NoHsnQuery ==
    /\ hsn_query = [year |-> 2024, month |-> 1]
    /\ hsn_result = <<>>

\* The sessions before their first script run: session state as the top of the
\* script sets it, the sidebar at its default state.
InitSessions(n) ==
    /\ InitStore(n)
    /\ invoices = <<>>
    /\ pc = [s \in 1..n |-> "idle"]
    /\ form = [s \in 1..n |-> EmptyForm]
    /\ items = [s \in 1..n |-> <<>>]
    /\ company_state = <<"M", "h">>
    /\ NoWordsCall
    /\ NoHsnQuery

\* ------------------------------------------- specification: the sequencer
\* NumCallers sessions load the page against an empty invoice_counter table.
InitSeq ==
    /\ InitSessions(NumCallers)
    /\ runs_left = MaxCalls
    /\ counter_id_unique \in BOOLEAN
    /\ customer_name_unique = TRUE

NextSeq ==
    \/ \E s \in Sessions : PageLoad(s)
    \/ \E s \in Sessions : SeqSelect(s)
    \/ \E s \in Sessions : SeqUpdate(s)
    \/ \E s \in Sessions : SeqInsert(s)
    \/ \E s \in Sessions : SeqStoreError(s)
    \/ \E s \in Sessions : FinishRun(s)
    \/ Tick

SpecSeq == InitSeq /\ [][NextSeq]_vars

\* --------------------------------------- specification: saving customers
\* NumCallers sessions save customers into an empty customers table; the
\* counter table answers every request.
InitCust ==
    /\ InitSessions(NumCallers)
    /\ runs_left = MaxCalls
    /\ counter_id_unique = TRUE
    /\ customer_name_unique \in BOOLEAN

NextCust ==
    \/ \E s \in Sessions : ClickSaveCustomer(s)
    \/ \E s \in Sessions : CustSelect(s)
    \/ \E s \in Sessions : CustUpdate(s)
    \/ \E s \in Sessions : CustInsert(s)
    \/ \E s \in Sessions : CustStoreError(s)
    \/ \E s \in Sessions : SeqSelect(s)
    \/ \E s \in Sessions : SeqUpdate(s)
    \/ \E s \in Sessions : SeqInsert(s)
    \/ \E s \in Sessions : FinishRun(s)

SpecCust == InitCust /\ [][NextCust]_vars

\* ---------------------------------------------- specification: the page
\* One session works the Create Invoice page against an empty store.
Init ==
    /\ InitSessions(1)
    /\ runs_left = MaxRuns
    /\ counter_id_unique = TRUE
    /\ customer_name_unique = TRUE

Next ==
    \/ \E s \in Sessions : PageLoad(s)
    \/ \E s \in Sessions : ClickSaveCustomer(s)
    \/ \E s \in Sessions : CustSelect(s)
    \/ \E s \in Sessions : CustUpdate(s)
    \/ \E s \in Sessions : CustInsert(s)
    \/ \E s \in Sessions : CustStoreError(s)
    \/ \E s \in Sessions : SeqSelect(s)
    \/ \E s \in Sessions : SeqUpdate(s)
    \/ \E s \in Sessions : SeqInsert(s)
    \/ \E s \in Sessions : SeqStoreError(s)
    \/ \E s \in Sessions : ClickAddItem(s)
    \/ \E s \in Sessions : AddItem(s)
    \/ \E s \in Sessions : ClickClearItems(s)
    \/ \E s \in Sessions : ClearItems(s)
    \/ \E s \in Sessions : ClickAddAnother(s)
    \/ \E s \in Sessions : AddAnother(s)
    \/ \E s \in Sessions : ClickGenerate(s)
    \/ \E s \in Sessions : GenerateRejected(s)
    \/ \E s \in Sessions : GeneratePdfError(s)
    \/ \E s \in Sessions : GenerateSaveFailed(s)
    \/ \E s \in Sessions : GenerateSaved(s)
    \/ \E s \in Sessions : ClickCreateNew(s)
    \/ \E s \in Sessions : CreateNew(s)
    \/ \E s \in Sessions : ClickRefresh(s)
    \/ \E s \in Sessions : Refresh(s)
    \/ \E s \in Sessions : FinishRun(s)
    \/ Tick

Spec == Init /\ [][Next]_vars

\* ------------------------------------------- specification: the totals
\* The characters of the state names, and the names of up to MaxStateLen.
StateChars == {"M", "m", "h", " "}

StateStrings == UNION {[1..n -> StateChars] : n \in 0..MaxStateLen}

\* Drafts of one to MaxItems items.
ItemLists(choices) == UNION {[1..n -> choices] : n \in 1..MaxItems}

ArithmeticItems ==
    {MakeItem("Pen", "8471", q, FromCents(10), g) :
        q \in 1..MaxTotalsQty, g \in GstOptions}

SplitItems == {MakeItem("Pen", "8471", 1, FromCents(10), g) : g \in {5, 18}}

\* The script has reached the totals of a draft with items: either the draft
\* varies and the states are two fixed names, or the states vary over all
\* names and the draft is one item.
InitTotals ==
    /\ InitStore(1)
    /\ runs_left = 0
    /\ counter_id_unique = TRUE
    /\ customer_name_unique = TRUE
    /\ pc = [s \in 1..1 |-> "body"]
    /\ invoices = <<>>
    /\ NoWordsCall
    /\ NoHsnQuery
    /\ \/ /\ items \in [1..1 -> ItemLists(ArithmeticItems)]
          /\ company_state = <<"M", "h">>
          /\ \E cs \in {<<"M", "h">>, <<"h">>} :
                form = [s \in 1..1 |-> [EmptyForm EXCEPT !.customer_state = cs]]
       \/ /\ \E it \in SplitItems : items = [s \in 1..1 |-> <<it>>]
          /\ company_state \in StateStrings
          /\ \E cs \in StateStrings :
                form = [s \in 1..1 |-> [EmptyForm EXCEPT !.customer_state = cs]]

\* The page computes and displays the totals of the draft.
DisplayTotals(s) ==
    /\ pc[s] = "body"
    /\ Len(items[s]) > 0
    /\ ~totals.computed
    /\ totals' = InvoiceTotals(items[s], company_state, form[s].customer_state)
    /\ UNCHANGED <<storeVars, envVars, pc, button, form, seqVars, custVars,
                   sessVars, company_state, tax_rows, wordVars, hsnVars,
                   histVars>>

\* generate_pdf lays out the tax rows of the invoice built from these totals.
RenderTaxRows ==
    /\ totals.computed
    /\ tax_rows = <<>>
    /\ tax_rows' = TaxRows(totals)
    /\ UNCHANGED <<storeVars, envVars, pc, button, form, seqVars, custVars,
                   sessVars, company_state, totals, wordVars, hsnVars,
                   histVars>>

NextTotals ==
    \/ \E s \in Sessions : DisplayTotals(s)
    \/ RenderTaxRows

SpecTotals == InitTotals /\ [][NextTotals]_vars

\* ---------------------------------- specification: amounts in words
\* Values of the crore, lakh and thousand groups of whole-rupee amounts.
GroupSamples == {0, 1, 10, 19, 20, 45, 99}

\* The whole-rupee amount of the four groups.
WholeAmount(crores, lakhs, thousands, rest) ==
    [hi |-> crores, lo |-> lakhs * 100000 + thousands * 1000 + rest,
     frac |-> FromInt(0)]

GroupedAmounts ==
    {WholeAmount(c, l, th, r) : c \in GroupSamples, l \in GroupSamples,
                                th \in GroupSamples, r \in {0, 5, 100, 110, 999}}

SmallAmounts == {WholeAmount(0, 0, th, r) : th \in {0, 1}, r \in 0..999}

\* Amounts of a hundred crore and more, up to 999,999,999,999.99.
LargeAmounts ==
    [hi : {100, 999, 1000, 1001, 99999}, lo : {0, 9999999},
     frac : {FromInt(0), FromCents(99)}]

\* The floats k / 2^FloatBits below 1.
Fractions == {RoundQ(k, 2^FloatBits, 0) : k \in 0..(2^FloatBits - 1)}

FractionalAmounts == [hi : {0}, lo : {0, 1, 21}, frac : Fractions]

WordAmounts ==
    GroupedAmounts \cup SmallAmounts \cup LargeAmounts \cup FractionalAmounts

\* The script has reached amount_in_words = number_to_words(grand_total).
InitWords ==
    /\ InitStore(1)
    /\ runs_left = 0
    /\ counter_id_unique = TRUE
    /\ customer_name_unique = TRUE
    /\ pc = [s \in 1..1 |-> "body"]
    /\ form = [s \in 1..1 |-> EmptyForm]
    /\ items = [s \in 1..1 |-> <<>>]
    /\ company_state = <<"M", "h">>
    /\ amount \in WordAmounts
    /\ words = <<>>
    /\ invoices = <<>>
    /\ NoHsnQuery

\* The call runs to its return or to the error it raises.
AmountInWords ==
    /\ words = <<>>
    /\ words' = <<number_to_words(amount)>>
    /\ UNCHANGED <<storeVars, envVars, pc, button, form, seqVars, custVars,
                   sessVars, company_state, totals, tax_rows, amount, hsnVars,
                   histVars>>

NextWords == AmountInWords

SpecWords == InitWords /\ [][NextWords]_vars

\* ------------------------------------- specification: HSN analytics
\* Items as the handlers store them, and items of older records that lack a
\* field.
HsnItems ==
    {MakeItem("Pen", "8471", 1, FromCents(10), 5),
     MakeItem("Ink", "8471", 2, FromCents(10), 18),
     MakeItem("Ink", "4820", 1, FromCents(10), 18)}

Without(item, key) == [k \in (DOMAIN item) \ {key} |-> item[k]]

HistoricalItems ==
    {Without(MakeItem("Pen", "8471", 1, FromCents(10), 5), key) :
        key \in {"hsn_code", "quantity", "taxable_value"}}

\* The fields of a stored invoice the tab reads.
HsnInvoice(date, item_list) ==
    [invoice_date |-> date, items |-> item_list,
     grand_total |-> FSum([i \in DOMAIN item_list |->
                              DictGet(item_list[i], "total", FromInt(0))])]

HsnInvoicesOfMonth ==
    {HsnInvoice(<<2024, 1, 15>>, l) : l \in ItemLists(HsnItems)}

HsnDates == {<<2024, 1, 31>>, <<2024, 2, 1>>, <<2024, 12, 31>>, <<2025, 1, 1>>}

\* The tab is opened on an invoices table that holds: one to MaxHsnInvoices
\* invoices of the month; or two invoices whose dates lie on the edges of the
\* months; or an invoice with an item that lacks a field, and another.
InitHsn ==
    /\ InitStore(1)
    /\ runs_left = 0
    /\ counter_id_unique = TRUE
    /\ customer_name_unique = TRUE
    /\ pc = [s \in 1..1 |-> "body"]
    /\ form = [s \in 1..1 |-> EmptyForm]
    /\ items = [s \in 1..1 |-> <<>>]
    /\ company_state = <<"M", "h">>
    /\ NoWordsCall
    /\ hsn_result = <<>>
    /\ \/ /\ hsn_query = [year |-> 2024, month |-> 1]
          /\ invoices \in UNION {[1..n -> HsnInvoicesOfMonth] : n \in 1..MaxHsnInvoices}
       \/ /\ hsn_query \in [year : {2024}, month : {1, 12}]
          /\ \E d1 \in HsnDates, d2 \in HsnDates, it \in HsnItems :
                invoices = <<HsnInvoice(d1, <<it>>), HsnInvoice(d2, <<it>>)>>
       \/ /\ hsn_query = [year |-> 2024, month |-> 1]
          /\ \E old \in HistoricalItems, inv \in HsnInvoicesOfMonth :
                invoices = <<HsnInvoice(<<2024, 1, 15>>, <<old>>), inv>>

\* The tab runs: the month's invoices are fetched and rolled up by HSN code,
\* or st.info tells that the month has none.
HsnAnalytics ==
    /\ hsn_result = <<>>
    /\ LET data == SelectMonth(invoices, hsn_query)
           hsn_data == HsnAddInvoices(<<>>, data)
           hsn_list == [i \in DOMAIN hsn_data |-> HsnRow(hsn_data[i])]
       IN IF Len(data) > 0
          THEN \E hsn_df \in SortedByValue(hsn_list) :
                  hsn_result' = <<[shown |-> "report", rows |-> hsn_df,
                                   total_invoices |-> Len(data),
                                   unique_codes |-> Len(hsn_data),
                                   total_value |-> InvoiceValue(data)]>>
          ELSE hsn_result' = <<[shown |-> "no_invoices"]>>
    /\ UNCHANGED <<storeVars, envVars, pc, button, form, seqVars, custVars,
                   sessVars, company_state, totals, tax_rows, wordVars,
                   hsn_query, histVars>>

\* The select raises: except Exception shows st.error and st.info.
HsnStoreError ==
    /\ hsn_result = <<>>
    /\ faults < MaxFaults
    /\ faults' = faults + 1
    /\ hsn_result' = <<[shown |-> "error"]>>
    /\ UNCHANGED <<storeVars, clock, runs_left, pc, button, form, seqVars,
                   custVars, sessVars, company_state, totals, tax_rows, wordVars,
                   hsn_query, histVars>>

NextHsn ==
    \/ HsnAnalytics
    \/ HsnStoreError

SpecHsn == InitHsn /\ [][NextHsn]_vars

\* ------------------------------------------------- claims: the sequencer
AllIdle == \A s \in Sessions : pc[s] = "idle"

Returns == BagToSet(returned)

NoFallbackReturned == \A r \in Returns : ~r.fallback

\* C1: once N concurrent callers against a fresh counter have all returned, no
\* store operation raised and the table holds its one counter row, the N
\* returned numbers are pairwise distinct and are exactly INV-00001 .. INV-N.
C1_DistinctContiguousRun ==
    (AllIdle /\ NoFallbackReturned /\ Len(invoice_counter) <= 1) =>
        /\ \A r \in Returns :
               /\ returned[r] = 1
               /\ \A q \in Returns : q.number = r.number => q = r
        /\ {r.number : r \in Returns}
               = {FormatInvoiceNumber(k) : k \in 1..BagCardinality(returned)}

\* C2: no step lowers the counter of a row of the invoice_counter table.
C2_CounterNeverDecreases ==
    [][\A i \in DOMAIN invoice_counter :
          i \in DOMAIN invoice_counter'
              => invoice_counter'[i].counter >= invoice_counter[i].counter]_vars

\* How many times a number was returned, over all sessions.
TimesReturned(number) ==
    BagCardinality([r \in {q \in Returns : q.number = number} |-> returned[r]])

\* C4: at most one caller is handed INV-00001 and the table never holds more
\* than one row; once a caller has returned normally the table holds one row.
C4_RaceSafeInitialisation ==
    /\ TimesReturned(FirstInvoiceNumber) <= 1
    /\ Len(invoice_counter) <= 1
    /\ (\E r \in Returns : ~r.fallback) => Len(invoice_counter) = 1

\* C5: a value returned on the fallback path carries an out-of-sequence flag
\* that is set, and a normally issued value carries it unset.
C5_FallbackIsFlagged ==
    \A s \in Sessions :
        (pc[s] = "body" /\ fell_back[s]) =>
            /\ "out_of_sequence" \in DOMAIN invoice_number[s]
            /\ invoice_number[s].out_of_sequence = TRUE

\* C6: any two fallback identifiers returned in the process are distinct.
FallbackNumbers == {r.number : r \in {q \in Returns : q.fallback}}

C6_FallbackIdentifiersDistinct ==
    \A n \in FallbackNumbers : TimesReturned(n) = 1

\* ---------------------------------------------- claims: saving customers
\* C8: the customers table holds at most one row per customer name.
C8_OneRowPerCustomerName ==
    \A i, j \in DOMAIN customers :
        i # j => customers[i].name # customers[j].name

\* ------------------------------------------------------ claims: the page
\* The counter advances once for every number issued on the normal path.
CounterAdvances ==
    BagCardinality([r \in {q \in Returns : ~q.fallback} |-> returned[r]])

\* C3: between script runs, the counter has advanced exactly as many times as
\* invoices were assembled.
C3_OneNumberPerAssembledInvoice ==
    AllIdle => CounterAdvances = assembled

\* C7: the number issued to an invoice whose save failed is not returned by a
\* later sequencer call of that session.
C7_SkippedNumberNotReissued ==
    \A s \in Sessions :
        pc[s] = "body" => invoice_number[s] \notin skipped[s]

\* ---------------------------------------------------- claims: the totals
\* C9: subtotal + total_tax equals grand_total exactly.
C9_SubtotalPlusTaxIsGrandTotal ==
    totals.computed => FAdd(totals.subtotal, totals.total_tax) = totals.grand_total

\* A name without its surrounding whitespace.
Core(str) ==
    LET inked == {i \in DOMAIN str : str[i] \notin Whitespace}
    IN IF inked = {} THEN <<>>
       ELSE SubSeq(str, CHOOSE i \in inked : \A j \in inked : i <= j,
                        CHOOSE i \in inked : \A j \in inked : i >= j)

SameLetter(a, b) == a = b \/ {a, b} \in {{"M", "m"}, {"H", "h"}}

SameStateName(a, b) ==
    /\ Len(Core(a)) = Len(Core(b))
    /\ \A i \in DOMAIN Core(a) : SameLetter(Core(a)[i], Core(b)[i])

\* c hundredths is what two decimals show of the value m * 2^e.
ShowsValue(c, m, e) ==
    IF e >= 0 THEN c = 100 * m * 2^e
    ELSE LET d == 2^(0 - e)
             diff == c * d - 100 * m
         IN 2 * diff <= d /\ 0 - 2 * diff <= d

\* C10: the totals are Intrastate exactly when the two state names are equal
\* after trimming and ignoring case; an Intrastate invoice shows CGST and SGST,
\* each total_tax / 2, any other shows IGST alone, equal to total_tax.
C10_SplitFollowsStateNames ==
    /\ totals.computed =>
          (totals.is_intrastate
              <=> SameStateName(company_state, form[1].customer_state))
    /\ tax_rows # <<>> =>
          IF SameStateName(company_state, form[1].customer_state)
          THEN /\ Len(tax_rows) = 2
               /\ tax_rows[1].label = "CGST:"
               /\ tax_rows[2].label = "SGST:"
               /\ tax_rows[1].amount = tax_rows[2].amount
               /\ ShowsValue(tax_rows[1].amount, totals.total_tax.m,
                             totals.total_tax.e - 1)
          ELSE /\ Len(tax_rows) = 1
               /\ tax_rows[1].label = "IGST:"
               /\ ShowsValue(tax_rows[1].amount, totals.total_tax.m,
                             totals.total_tax.e)

\* The rows of an Intrastate invoice are laid out whose state names differ in
\* case and in surrounding whitespace, with a tax that shows as non-zero.
C10_Witness ==
    /\ tax_rows # <<>>
    /\ totals.is_intrastate
    /\ Core(company_state) # <<>>
    /\ Core(company_state) # Core(form[1].customer_state)
    /\ Len(form[1].customer_state) > Len(Core(form[1].customer_state))
    /\ tax_rows[1].amount > 0

\* A state name that is empty or blank after trimming.
BlankState(str) == Core(str) = <<>>

\* C11: totals taken while the seller state or the customer state is empty or
\* blank after trimming are classified Interstate, both blank included.
C11_BlankStateIsInterstate ==
    (totals.computed /\ (BlankState(company_state)
                            \/ BlankState(form[1].customer_state)))
        => ~totals.is_intrastate

\* ------------------------------------------------------ claims: the draft
\* C12: every record of the invoices table has at least one line item.
C12_SavedInvoiceHasItems ==
    \A i \in DOMAIN invoices : Len(invoices[i].items) >= 1

\* An invoice was saved and Create New Invoice has emptied the draft since.
C12_Witness ==
    /\ Len(invoices) >= 1
    /\ \E s \in Sessions : items[s] = <<>> /\ ~invoice_generated[s]

\* A line item with the fields a draft may hold.
ValidItem(it) ==
    /\ it.product_name # ""
    /\ it.hsn_code # ""
    /\ it.quantity >= 1
    /\ it.rate.m >= 0
    /\ it.gst_rate \in GstOptions

\* C13: every item of a draft is valid, and a step changes a draft only by
\* emptying it or by appending one valid item: a handler that rejects its
\* input leaves the draft as it was.
C13_DraftHoldsValidItems ==
    /\ [](\A s \in Sessions : \A i \in DOMAIN items[s] : ValidItem(items[s][i]))
    /\ [][\A s \in Sessions :
            /\ items'[s] # items[s] =>
                  \/ items'[s] = <<>>
                  \/ /\ Len(items'[s]) = Len(items[s]) + 1
                     /\ SubSeq(items'[s], 1, Len(items[s])) = items[s]
                     /\ ValidItem(items'[s][Len(items'[s])])
            /\ (rejected'[s] /\ ~rejected[s]) => items'[s] = items[s]]_vars

\* A handler has rejected its input while the draft held an item.
C13_Witness ==
    \E s \in Sessions : rejected[s] /\ Len(items[s]) >= 1 /\ pc[s] = "idle"

\* ------------------------------------------- claims: amounts in words
\* C14: the call returns a text, raising nothing, for every amount up to
\* 999,999,999,999.99, a thousand crore and more included.
C14_ReturnsTextUpToLimit ==
    (words # <<>> /\ amount.hi <= 99999) => ~words[1].raised

\* The English number names, by place.
UnitNames ==
    <<"One", "Two", "Three", "Four", "Five", "Six", "Seven", "Eight", "Nine">>

TeenNames ==
    <<"Ten", "Eleven", "Twelve", "Thirteen", "Fourteen", "Fifteen", "Sixteen",
      "Seventeen", "Eighteen", "Nineteen">>

TenNames ==
    <<"Twenty", "Thirty", "Forty", "Fifty", "Sixty", "Seventy", "Eighty",
      "Ninety">>

\* The words that name n, 0 <= n <= 999: none for 0.
NamesBelowThousand(n) ==
    LET h == n \div 100
        r == n % 100
    IN (IF h > 0 THEN <<UnitNames[h], "Hundred">> ELSE <<>>)
       \o (IF r = 0 THEN <<>>
           ELSE IF r < 10 THEN <<UnitNames[r]>>
           ELSE IF r < 20 THEN <<TeenNames[r - 9]>>
           ELSE <<TenNames[(r \div 10) - 1]>>
                \o (IF r % 10 = 0 THEN <<>> ELSE <<UnitNames[r % 10]>>))

\* A non-zero group is named and followed by its scale name.
GroupNames(g, scale) == IF g = 0 THEN <<>> ELSE NamesBelowThousand(g) \o <<scale>>

\* Words joined by single blanks.
RECURSIVE JoinWords(_)
JoinWords(ws) ==
    IF Len(ws) <= 1 THEN ws ELSE <<Head(ws), " ">> \o JoinWords(Tail(ws))

WholeRupees == words # <<>> /\ amount.frac.m = 0 /\ amount.hi <= 99

\* C15: a whole-rupee amount from 1 to 99,99,99,999 is worded as its crore,
\* lakh, thousand and 0-999 groups in that order, each non-zero group followed
\* by its scale name, joined by single blanks, then "Rupees Only"; the amount
\* 0 is worded "Zero Rupees Only".
C15_GroupsInOrderSingleSpaced ==
    WholeRupees =>
        words[1] = Ok(JoinWords(
            IF amount.hi = 0 /\ amount.lo = 0 THEN <<"Zero", "Rupees", "Only">>
            ELSE GroupNames(amount.hi, "Crore")
                 \o GroupNames(amount.lo \div 100000, "Lakh")
                 \o GroupNames((amount.lo % 100000) \div 1000, "Thousand")
                 \o NamesBelowThousand(amount.lo % 1000)
                 \o <<"Rupees", "Only">>))

\* An amount with a crore group and no 0-999 group has been worded, where the
\* text built before the strip ends in a blank.
C15_Witness ==
    /\ WholeRupees
    /\ amount.hi >= 20
    /\ amount.lo \div 100000 >= 1
    /\ amount.lo % 1000 = 0
    /\ ~words[1].raised
    /\ Len(words[1].text) > 5

\* Does the text hold the words of pat side by side.
Contains(text, pat) ==
    \E i \in 1..(Len(text) - Len(pat) + 1) :
        SubSeq(text, i, i + Len(pat) - 1) = pat

\* C20: the paise a non-zero amount is worded with lie between 0 and 99, and
\* the text never says "One Hundred Paise".
C20_PaiseBelowHundred ==
    (words # <<>> /\ ~(amount.hi = 0 /\ amount.lo = 0 /\ amount.frac.m = 0)) =>
        /\ Paise(amount) \in 0..99
        /\ ~Contains(words[1].text, <<"One", " ", "Hundred", " ", "Paise">>)

\* ------------------------------------------------ claims: HSN analytics
\* The line items of the invoices the tab fetched, in record order.
RECURSIVE ItemsOf(_)
ItemsOf(data) ==
    IF data = <<>> THEN <<>> ELSE Head(data).items \o ItemsOf(Tail(data))

FetchedItems == ItemsOf(SelectMonth(invoices, hsn_query))

ItemFields ==
    {"product_name", "hsn_code", "quantity", "rate", "taxable_value",
     "gst_rate", "tax_amount", "total"}

Complete(item) == ItemFields \subseteq DOMAIN item

\* The items of a list that carry the code, in order.
ItemsWithCode(item_list, code) ==
    SelectSeq(item_list, LAMBDA it : Complete(it) /\ it.hsn_code = code)

\* A row holds the sums over these items.
RowSumsItems(row, its) ==
    /\ row.total_qty = IntSum([i \in DOMAIN its |-> its[i].quantity])
    /\ row.taxable_value = FSum([i \in DOMAIN its |-> its[i].taxable_value])
    /\ row.total_tax = FSum([i \in DOMAIN its |-> its[i].tax_amount])
    /\ row.total_value = FSum([i \in DOMAIN its |-> its[i].total])

HsnReportShown == hsn_result # <<>> /\ hsn_result[1].shown = "report"

\* C16: over invoices of the selected month whose items carry all their
\* fields, the report has exactly one row for every HSN code among the items
\* and no other row, and a row's quantity, taxable value, tax and value are
\* the sums (in record order) over all items of its code.
C16_OneRowPerCodeWithSums ==
    (HsnReportShown /\ \A i \in DOMAIN FetchedItems : Complete(FetchedItems[i])) =>
        LET rows == hsn_result[1].rows
            codes == {FetchedItems[i].hsn_code : i \in DOMAIN FetchedItems}
        IN /\ \A c \in codes :
                 Cardinality({i \in DOMAIN rows : rows[i].hsn_code = c}) = 1
           /\ \A i \in DOMAIN rows :
                 /\ rows[i].hsn_code \in codes
                 /\ RowSumsItems(rows[i], ItemsWithCode(FetchedItems, rows[i].hsn_code))

\* A report over two invoices that share a code, with a second code beside it.
C16_Witness ==
    /\ HsnReportShown
    /\ Len(hsn_result[1].rows) = 2
    /\ hsn_result[1].total_invoices = 2
    /\ \A i \in DOMAIN invoices :
           \E k \in DOMAIN invoices[i].items :
               Complete(invoices[i].items[k]) /\ invoices[i].items[k].hsn_code = "8471"
    /\ \E i \in DOMAIN hsn_result[1].rows : hsn_result[1].rows[i].total_qty >= 3

\* C17: an item that lacks a field is skipped: no row counts it, the rows are
\* the sums over the items that are complete, and the result reports how many
\* items were left out.
C17_IncompleteItemSkippedAndReported ==
    (HsnReportShown /\ \E i \in DOMAIN FetchedItems : ~Complete(FetchedItems[i])) =>
        LET rows == hsn_result[1].rows
            left_out == {i \in DOMAIN FetchedItems : ~Complete(FetchedItems[i])}
        IN /\ \A i \in DOMAIN rows :
                 /\ ItemsWithCode(FetchedItems, rows[i].hsn_code) # <<>>
                 /\ RowSumsItems(rows[i], ItemsWithCode(FetchedItems, rows[i].hsn_code))
           /\ "omitted" \in DOMAIN hsn_result[1]
           /\ hsn_result[1].omitted = Cardinality(left_out)

\* ------------------------------------------- claims: the stored addresses
\* C18: a record stored while the shipping address input is empty holds the
\* billing address as its shipping address, in invoices and in customers.
C18_ShippingDefaultsToBilling ==
    [][\A s \in Sessions :
          form[s].shipping_address = "" =>
              /\ (pc[s] = "body" /\ button[s] = "generate"
                      /\ Len(invoices') = Len(invoices) + 1) =>
                     invoices'[Len(invoices')].shipping_address
                         = form[s].billing_address
              /\ (pc[s] = "cust_write"
                      /\ Len(customers') = Len(customers) + 1) =>
                     customers'[Len(customers')].shipping_address
                         = form[s].billing_address]_vars

\* ------------------------------------------ claims: the generated invoice
\* A Generate Invoice run ends without a saved invoice.
GenerateFails == assembled' = assembled + 1 /\ invoices' = invoices

\* C19: invoice_generated is set only while pdf_buffer and
\* current_invoice_number hold the PDF and the number of the invoice the
\* session saved last; a Generate Invoice whose PDF build or save fails leaves
\* invoice_generated false; Create New Invoice empties items, unsets
\* invoice_generated and removes pdf_buffer, current_invoice_number and
\* current_invoice_date.
C19_GeneratedMeansLastGenerateSaved ==
    /\ [](\A s \in Sessions :
            invoice_generated[s] =>
                /\ invoices # <<>>
                /\ pdf_buffer[s] = <<GeneratePdf(invoices[Len(invoices)])>>
                /\ current_invoice_number[s]
                       = <<invoices[Len(invoices)].invoice_number>>)
    /\ [][\A s \in Sessions :
            /\ GenerateFails => ~invoice_generated'[s]
            /\ (pc[s] = "body" /\ button[s] = "create_new" /\ pc'[s] # "body") =>
                   /\ items'[s] = <<>>
                   /\ ~invoice_generated'[s]
                   /\ pdf_buffer'[s] = <<>>
                   /\ current_invoice_number'[s] = <<>>
                   /\ current_invoice_date'[s] = <<>>]_vars

\* C21: an amount strictly between 0 and 1 rupee is worded with a number word
\* before "Rupees" and with no leading blank: the text never starts with
\* " Rupees".
C21_NumberWordBeforeRupees ==
    (words # <<>> /\ amount.hi = 0 /\ amount.lo = 0 /\ amount.frac.m # 0) =>
        /\ ~words[1].raised
        /\ Len(words[1].text) >= 2
        /\ words[1].text[1] \notin Whitespace \cup {"Rupees"}
        /\ SubSeq(words[1].text, 1, 2) # <<" ", "Rupees">>

====
